---- MODULE Spec2Model ----
(***************************************************************************)
(* Model of munin_exporter (src/munin_exporter.go, the version that starts *)
(* at line 265): one sampler thread that connects to a munin node, builds  *)
(* the metric catalog once, then fetches every graph on each timer tick,   *)
(* and concurrent scrape handlers that wait on the WaitGroup wg before     *)
(* they read the catalog.                                                  *)
(*                                                                         *)
(* Text is modelled as sequences of one-character strings so that the      *)
(* string operations of the code (Fields, Split, Replace, TrimRight,       *)
(* ToLower, ParseFloat, the banner regexp) are computed, not assumed.      *)
(***************************************************************************)
EXTENDS Integers, Sequences, FiniteSets, TLC

(***************************************************************************)
(* Bounds of the model.                                                    *)
(***************************************************************************)
\* largest value the WaitGroup counter is followed to
MaxWg == 2
\* number of concurrent scrape handlers
NumScrapers == 2

(***************************************************************************)
(* Text helpers (Go: package strings, strconv, regexp).                     *)
(***************************************************************************)
NL == "\n"
SP == " "

WhiteSpace == {" ", "\n", "\t", "\r"}

\* index of the first element of s satisfying membership in cs, 0 if none
IndexAny(s, cs) ==
  LET I == {i \in 1..Len(s) : s[i] \in cs}
  IN  IF I = {} THEN 0 ELSE CHOOSE i \in I : \A j \in I : i <= j

\* index of the first element of s NOT in cs, 0 if none
IndexNotAny(s, cs) ==
  LET I == {i \in 1..Len(s) : s[i] \notin cs}
  IN  IF I = {} THEN 0 ELSE CHOOSE i \in I : \A j \in I : i <= j

\* strings.Fields: the maximal runs of non-white-space characters
RECURSIVE Fields(_)
Fields(s) ==
  LET b == IndexNotAny(s, WhiteSpace)
  IN  IF b = 0 THEN << >>
      ELSE LET r == SubSeq(s, b, Len(s))
               e == IndexAny(r, WhiteSpace)
           IN  IF e = 0 THEN << r >>
               ELSE << SubSeq(r, 1, e - 1) >> \o Fields(SubSeq(r, e, Len(r)))

\* strings.Split(s, c) for a one-character separator
RECURSIVE Split(_, _)
Split(s, c) ==
  LET i == IndexAny(s, {c})
  IN  IF i = 0 THEN << s >>
      ELSE << SubSeq(s, 1, i - 1) >> \o Split(SubSeq(s, i + 1, Len(s)), c)

\* strings.Join(parts, sep)
RECURSIVE Join(_, _)
Join(parts, sep) ==
  IF parts = << >> THEN << >>
  ELSE IF Len(parts) = 1 THEN parts[1]
  ELSE parts[1] \o sep \o Join(Tail(parts), sep)

\* strings.Replace(s, old, new, -1) for one-character old and new
Replace(s, old, new) == [i \in 1..Len(s) |-> IF s[i] = old THEN new ELSE s[i]]

\* strings.TrimRight(s, c) for a one-character cutset
RECURSIVE TrimRight(_, _)
TrimRight(s, c) ==
  IF s # << >> /\ s[Len(s)] = c THEN TrimRight(SubSeq(s, 1, Len(s) - 1), c) ELSE s

UpperCase == <<"A","B","C","D","E","F","G","H","I","J","K","L","M",
               "N","O","P","Q","R","S","T","U","V","W","X","Y","Z">>
LowerCase == <<"a","b","c","d","e","f","g","h","i","j","k","l","m",
               "n","o","p","q","r","s","t","u","v","w","x","y","z">>

LowerChar(c) ==
  IF \E i \in 1..26 : UpperCase[i] = c
  THEN LowerCase[CHOOSE i \in 1..26 : UpperCase[i] = c]
  ELSE c

\* strings.ToLower
ToLower(s) == [i \in 1..Len(s) |-> LowerChar(s[i])]

Digits == <<"0","1","2","3","4","5","6","7","8","9">>
IsDigit(c) == \E i \in 1..10 : Digits[i] = c
DigitVal(c) == (CHOOSE i \in 1..10 : Digits[i] = c) - 1

RECURSIVE DecVal(_)
DecVal(s) == IF s = << >> THEN 0
             ELSE 10 * DecVal(SubSeq(s, 1, Len(s) - 1)) + DigitVal(s[Len(s)])

AllDigits(s) == s # << >> /\ \A i \in 1..Len(s) : IsDigit(s[i])

\* strconv.ParseFloat(s, 64) on the decimal forms [+-]ddd[.d] that the
\* modelled agent sends; anything else is a syntax error.  The value is kept
\* in tenths so that one fractional digit is exact.
ParseFloat(s) ==
  LET neg  == s # << >> /\ s[1] = "-"
      body == IF s # << >> /\ s[1] \in {"-", "+"} THEN Tail(s) ELSE s
      dot  == IndexAny(body, {"."})
      ip   == IF dot = 0 THEN body ELSE SubSeq(body, 1, dot - 1)
      fp   == IF dot = 0 THEN << >> ELSE SubSeq(body, dot + 1, Len(body))
      ok   == AllDigits(ip) /\ (dot = 0 \/ (Len(fp) = 1 /\ IsDigit(fp[1])))
      mag  == 10 * DecVal(ip) + (IF fp = << >> THEN 0 ELSE DigitVal(fp[1]))
  IN  IF ok THEN [err |-> FALSE, value |-> IF neg THEN 0 - mag ELSE mag]
      ELSE [err |-> TRUE, value |-> 0]

\* Go map read with the zero value "" for a missing key
Get(m, k) == IF k \in DOMAIN m THEN m[k] ELSE << >>

\* m[k] = v on a Go map
Put(m, k, v) == [x \in DOMAIN m \cup {k} |-> IF x = k THEN v ELSE m[x]]

EmptyMap == [x \in {} |-> << >>]

(***************************************************************************)
(* The banner regexp "# munin node at " followed by one capture group of   *)
(* any characters: the match is unanchored and leftmost, and the group     *)
(* stops at the end of the line, since                                     *)
(* "." does not match a newline).                                          *)
(***************************************************************************)
muninBanner == <<"#"," ","m","u","n","i","n"," ","n","o","d","e"," ","a","t"," ">>

\* muninBanner.FindStringSubmatch(head): << >> when there is no match,
\* otherwise << whole match, captured group >>
FindStringSubmatch(head) ==
  LET n == Len(muninBanner)
      I == {i \in 1..Len(head) :
              i + n - 1 <= Len(head) /\ SubSeq(head, i, i + n - 1) = muninBanner}
  IN  IF I = {} THEN << >>
      ELSE LET i    == CHOOSE x \in I : \A y \in I : x <= y
               rest == SubSeq(head, i + n, Len(head))
               e    == IndexAny(rest, {NL})
               cap  == IF e = 0 THEN rest ELSE SubSeq(rest, 1, e - 1)
           IN  << muninBanner \o cap, cap >>

(***************************************************************************)
(* The upstream agent: the lines it can send.  The agent is the input of   *)
(* the program; its answers are drawn from these sets.                     *)
(***************************************************************************)
\* a read that fails with an error other than a complete line
ReadErr == <<"ERR">>

Head1    == muninBanner \o <<"h","1","\n">>
Head2    == muninBanner \o <<"h","2","\n">>
HeadJunk == <<"x"," ">> \o muninBanner \o <<"h","1","\n">>
HeadBad  == <<"#"," ","m","u","n","i","n","\n">>

\* first lines a freshly dialled connection can deliver
Heads == {Head1, Head2, HeadJunk, HeadBad}

\* answers to "list"
ListBoth  == <<"a"," ","a","-","b","\n">>
ListOne   == <<"a","\n">>
ListError == <<"#"," ","n","o","\n">>
ListM     == <<"m","\n">>
ListMunin == <<"m","u","n","i","n","\n">>
ListResponses == {ListBoth, ListOne, ListError, ListM, ListMunin}

\* graph names used by the agent
GraphA  == <<"a">>
GraphAB == <<"a","-","b">>
GraphM  == <<"m">>
GraphMunin == <<"m","u","n","i","n">>

\* answer to "config a": a gauge b_c (no type) and a counter u (type DERIVE)
ConfigA == <<
  <<"g","r","a","p","h","_","t","i","t","l","e"," ","T","\n">>,
  <<"#"," ","x","\n">>,
  <<"b","_","c",".","l","a","b","e","l"," ","L","\n">>,
  <<"u",".","l","a","b","e","l"," ","M"," ","x","\n">>,
  <<"u",".","t","y","p","e"," ","D","E","R","I","V","E","\n">>,
  <<"u",".","i","n","f","o"," ","I","\n">>,
  <<".","\n">> >>

\* answer to "config a-b": a counter c whose identifier a_b_c is also the
\* identifier of metric b_c of graph a, a gauge d and a counter e
ConfigAB == <<
  <<"d",".","t","y","p","e"," ","G","A","U","G","E","\n">>,
  <<"e",".","t","y","p","e"," ","C","o","u","n","t","e","r","\n">>,
  <<"g","r","a","p","h","_","t","i","t","l","e"," ","N","\n">>,
  <<"c",".","l","a","b","e","l"," ","L","\n">>,
  <<"c",".","t","y","p","e"," ","c","o","u","n","t","e","r","\n">>,
  <<".","\n">> >>

\* answer to "config m": the second line has a single field
ConfigM == <<
  <<"g","r","a","p","h","_","t","i","t","l","e"," ","T","\n">>,
  <<"x","\n">>,
  <<"y",".","l","a","b","e","l"," ","L","\n">>,
  <<".","\n">> >>

\* answer to "config munin": a gauge fetching_metric, whose identifier is
\* the key of the self-timing gauge
ConfigMunin == <<
  <<"g","r","a","p","h","_","t","i","t","l","e"," ","T","\n">>,
  <<"f","e","t","c","h","i","n","g","_","m","e","t","r","i","c",".","l","a","b","e","l"," ","L","\n">>,
  <<".","\n">> >>

AgentConfig(graph) ==
  IF graph = GraphA THEN ConfigA
  ELSE IF graph = GraphM THEN ConfigM
  ELSE IF graph = GraphMunin THEN ConfigMunin
  ELSE ConfigAB

\* value lines of an answer to "fetch <graph>"
LineBC   == <<"b","_","c",".","v","a","l","u","e"," ","1","\n">>
LineBC2  == <<"b","_","c",".","v","a","l","u","e"," ","2",".","5","\n">>
LineC    == <<"c",".","v","a","l","u","e"," ","3","\n">>
LineU    == <<"u",".","v","a","l","u","e"," ","4","\n">>
LineBadV == <<"u",".","v","a","l","u","e"," ","U","\n">>
Line3F   == <<"u"," ","1"," ","2","\n">>
LineNone == <<"\n">>
LineFM   == <<"f","e","t","c","h","i","n","g","_","m","e","t","r","i","c",".","v","a","l","u","e"," ","1","\n">>
FetchLines == {LineBC, LineBC2, LineC, LineU, LineBadV, Line3F, LineNone}

EndMarker == <<".","\n">>

\* durations (tenths of a second) the self-timing gauge can be set to
Durations == {1}

\* fixed names of registerMetrics
BuildInfoName == <<"m","u","n","i","n","_","e","x","p","o","r","t","e","r","_","b","u","i","l","d","_","i","n","f","o">>
FetchTimeName == <<"m","u","n","i","n","_","e","x","p","o","r","t","e","r","_","m","u","n","i","n","_","d","a","t","a","_","f","e","t","c","h","_","t","i","m","e">>
FetchTimeKey  == <<"m","u","n","i","n","_","f","e","t","c","h","i","n","g","_","m","e","t","r","i","c">>
GraphTitle    == <<"g","r","a","p","h","_","t","i","t","l","e">>
KeyLabel      == <<"l","a","b","e","l">>
KeyInfo       == <<"i","n","f","o">>
KeyType       == <<"t","y","p","e">>
TypeCounter   == <<"c","o","u","n","t","e","r">>
TypeDerive    == <<"d","e","r","i","v","e">>
TypeGauge     == <<"g","a","u","g","e">>

(***************************************************************************)
(* State.                                                                  *)
(***************************************************************************)
VARIABLES
  pc,               \* position of the main thread (init, main, fetchMetrics)
  cmd,              \* command muninCommand is issuing: "list", "config", "fetch"
  globalConn,       \* "nil", "open" or "closed"
  hostname,         \* hostname recorded by connect
  items,            \* result of muninList
  graphs,           \* list of graph names
  gi,               \* index of the current graph in the range loops
  nread,            \* lines read so far from the current response
  config,           \* muninConfig: metric -> attribute -> value
  graphConfig,      \* muninConfig: graph attribute -> value
  todo,             \* metrics of configs the range loop has not visited yet
  gaugePerMetric,   \* identifier -> gauge vector
  counterPerMetric, \* identifier -> muninCounter
  registry,         \* descriptors accepted by prometheus.Register
  wg,               \* counter of the WaitGroup
  line,             \* fetchMetrics: the line ReadString returned last;
                    \* muninConfig: the line its "Line unexpected" error carries
  name,             \* fetchMetrics: the identifier resolved for that line
  taken,            \* history: identifiers stored from the response being read
  truncated,        \* history of the running cycle: identifiers whose value
                    \* comes from a response cut by io.EOF and has not been
                    \* stored again since
  scr,              \* number of scrape handlers in each position
  world,            \* the surroundings: what the agent answers, how many clients
  discovered        \* history: the (graph, metric, identifier) registrations

connVars  == << globalConn, hostname >>
regVars   == << items, graphs, config, graphConfig, todo, discovered, world >>
catVars   == << gaugePerMetric, counterPerMetric, registry >>
lineVars  == << line, name, taken, truncated >>
vars == << pc, cmd, globalConn, hostname, items, graphs, gi, nread, config,
           graphConfig, todo, gaugePerMetric, counterPerMetric, registry, wg,
           line, name, taken, truncated, scr, world, discovered >>

NoText == << >>

\* an agent with one graph and every value line, scraped by one client
WorldCatalog == [lists |-> {ListOne, ListError}, lines |-> FetchLines, clients |-> 1]

\* an agent with two graphs whose metrics collide, scraped by one client
WorldCollide == [lists |-> {ListBoth}, lines |-> {LineBC, LineC}, clients |-> 1]

\* an agent with one graph and two value lines, scraped by NumScrapers clients
WorldGate == [lists |-> {ListOne}, lines |-> {LineBC, LineBadV},
              clients |-> NumScrapers]

\* an agent whose only graph has a config line with a single field
WorldShortLine == [lists |-> {ListM}, lines |-> {LineBC}, clients |-> 1]

\* an agent whose only graph is munin, with the metric fetching_metric
WorldSelfTiming == [lists |-> {ListMunin}, lines |-> {LineFM}, clients |-> 1]

Worlds == {WorldCatalog, WorldCollide, WorldGate, WorldShortLine,
           WorldSelfTiming}

\* an agent with one graph and one value line, scraped by one client
WorldLive == [lists |-> {ListOne}, lines |-> {LineBC}, clients |-> 1]

Start(w) ==
  /\ pc = "init"
  /\ cmd = "none"
  /\ globalConn = "nil"
  /\ hostname = NoText
  /\ items = << >>
  /\ graphs = << >>
  /\ gi = 0
  /\ nread = 0
  /\ config = EmptyMap
  /\ graphConfig = EmptyMap
  /\ todo = {}
  /\ gaugePerMetric = EmptyMap
  /\ counterPerMetric = EmptyMap
  /\ registry = {}
  /\ wg = 0
  /\ line = NoText
  /\ name = NoText
  /\ taken = {}
  /\ truncated = {}
  /\ scr = [waiting |-> 0, woken |-> 0, reading |-> 0]
  /\ discovered = {}
  /\ world = w

Init == \E w \in Worlds : Start(w)

(***************************************************************************)
(* connect(): dial, read one line, match the banner.                       *)
(* dial is "ok" or "fail"; head is the line read or ReadErr.               *)
(***************************************************************************)
\* connect as it would be if hostname were cleared before the banner is
\* checked
connect_clears(host, dial, head) ==
  IF dial = "fail"
  THEN [err |-> TRUE, globalConn |-> "nil", hostname |-> host]
  ELSE IF head = ReadErr
  THEN [err |-> TRUE, globalConn |-> "open", hostname |-> host]
  ELSE LET matches == FindStringSubmatch(head)
       IN  IF Len(matches) # 2
           THEN [err |-> TRUE, globalConn |-> "open", hostname |-> NoText]
           ELSE [err |-> FALSE, globalConn |-> "open", hostname |-> matches[2]]

connect(host, dial, head) ==
  IF dial = "fail"
  THEN [err |-> TRUE, globalConn |-> "nil", hostname |-> host]
  ELSE IF head = ReadErr
  THEN [err |-> TRUE, globalConn |-> "open", hostname |-> host]
  ELSE LET matches == FindStringSubmatch(head)
       IN  IF Len(matches) # 2
           THEN [err |-> TRUE, globalConn |-> "open", hostname |-> host]
           ELSE [err |-> FALSE, globalConn |-> "open", hostname |-> matches[2]]

\* what a connection attempt can meet
ConnectInputs == {<<"fail", ReadErr>>} \cup ({"ok"} \X (Heads \cup {ReadErr}))

\* init(): connect or exit
InitConnect(dial, head) ==
  /\ pc = "init"
  /\ LET r == connect(hostname, dial, head)
     IN  /\ globalConn' = r.globalConn
         /\ hostname' = r.hostname
         /\ IF r.err
            THEN pc' = "exited" /\ cmd' = cmd
            ELSE pc' = "command" /\ cmd' = "list"   \* main, registerMetrics, muninList
  /\ UNCHANGED << gi, nread, wg, scr >>
  /\ UNCHANGED regVars
  /\ UNCHANGED catVars
  /\ UNCHANGED lineVars

(***************************************************************************)
(* muninCommand: write the command, peek one byte.                         *)
(***************************************************************************)
\* peek succeeds: the caller goes on to read the response
CommandOk ==
  /\ pc = "command"
  /\ pc' = "read"
  /\ nread' = 0
  /\ UNCHANGED << cmd, gi, wg, scr >>
  /\ UNCHANGED connVars
  /\ UNCHANGED regVars
  /\ UNCHANGED catVars
  /\ UNCHANGED lineVars

\* peek reports io.EOF: close and enter the reconnect loop
CommandEOF ==
  /\ pc = "command"
  /\ globalConn' = "closed"
  /\ pc' = "reconnect"
  /\ UNCHANGED << cmd, hostname, gi, nread, wg, scr >>
  /\ UNCHANGED regVars
  /\ UNCHANGED catVars
  /\ UNCHANGED lineVars

\* peek reports another error: os.Exit(1)
CommandFatal ==
  /\ pc = "command"
  /\ pc' = "exited"
  /\ UNCHANGED << cmd, gi, nread, wg, scr >>
  /\ UNCHANGED connVars
  /\ UNCHANGED regVars
  /\ UNCHANGED catVars
  /\ UNCHANGED lineVars

\* the reconnect loop as it would be if a failed attempt ended the process
Reconnect_givesup(dial, head) ==
  /\ pc = "reconnect"
  /\ LET r == connect(hostname, dial, head)
     IN  /\ globalConn' = r.globalConn
         /\ hostname' = r.hostname
         /\ pc' = IF r.err THEN "exited" ELSE "command"
  /\ UNCHANGED << cmd, gi, nread, wg, scr >>
  /\ UNCHANGED regVars
  /\ UNCHANGED catVars
  /\ UNCHANGED lineVars

\* one iteration of the reconnect loop: on success muninCommand(cmd) again
Reconnect(dial, head) ==
  /\ pc = "reconnect"
  /\ LET r == connect(hostname, dial, head)
     IN  /\ globalConn' = r.globalConn
         /\ hostname' = r.hostname
         /\ pc' = IF r.err THEN "reconnect" ELSE "command"
  /\ UNCHANGED << cmd, gi, nread, wg, scr >>
  /\ UNCHANGED regVars
  /\ UNCHANGED catVars
  /\ UNCHANGED lineVars

(***************************************************************************)
(* muninList: read the first line of the answer to "list".                 *)
(***************************************************************************)
\* result of muninList for a response line (or ReadErr)
muninList(response) ==
  IF response = ReadErr THEN [err |-> TRUE, items |-> << >>]
  ELSE IF response[1] = "#" THEN [err |-> TRUE, items |-> << >>]
  ELSE [err |-> FALSE, items |-> Fields(TrimRight(response, NL))]

\* registerMetrics: an error of muninList makes main exit
ListRead ==
  /\ pc = "read" /\ cmd = "list"
  /\ \E response \in world.lists \cup {ReadErr} :
       LET r == muninList(response)
       IN  /\ items' = r.items
           /\ pc' = IF r.err THEN "exited" ELSE "regloop"
           /\ gi' = IF r.err THEN gi ELSE 1
  /\ UNCHANGED << cmd, nread, graphs, config, graphConfig, todo, discovered, world, wg, scr >>
  /\ UNCHANGED connVars
  /\ UNCHANGED catVars
  /\ UNCHANGED lineVars

(***************************************************************************)
(* Collectors and the registry of the metrics library.                     *)
(***************************************************************************)
\* prometheus.NewGaugeVec: no child yet
NewGaugeVec(metricName, desc, nlabels) ==
  [name |-> metricName, help |-> desc, type |-> TypeGauge,
   nlabels |-> nlabels, children |-> EmptyMap]

\* newMuninCounter
newMuninCounter(metricName, desc, muninType) ==
  [name |-> metricName, help |-> desc, type |-> muninType,
   value |-> 0, currentLabels |-> << >>]

\* prometheus.Register, whose error the code ignores: a descriptor is
\* refused when one with the same name and constant label values is
\* registered, or one with the same name and another help text
Register(reg, c) ==
  LET d == [name |-> c.name, help |-> c.help, type |-> c.type]
  IN  IF \E r \in reg : r.name = d.name /\ (r.type = d.type \/ r.help # d.help)
      THEN reg
      ELSE reg \cup {d}

(***************************************************************************)
(* registerMetrics.                                                        *)
(***************************************************************************)
\* identifier built at registration (line 516)
RegisterName(graph, metric) == Replace(graph \o <<"_">> \o metric, "-", "_")

\* the help text as it would be if the info suffix were appended without the
\* test for an empty info
HelpText_always(gc, mc) ==
  Get(gc, GraphTitle) \o <<":", " ">> \o Get(mc, KeyLabel)
    \o <<",", " ">> \o Get(mc, KeyInfo)

\* help text (lines 517-520)
HelpText(gc, mc) ==
  LET desc == Get(gc, GraphTitle) \o <<":", " ">> \o Get(mc, KeyLabel)
  IN  IF Get(mc, KeyInfo) # << >>
      THEN desc \o <<",", " ">> \o Get(mc, KeyInfo)
      ELSE desc

\* muninType as it would be without strings.ToLower
MuninType_nolower(mc) == Get(mc, KeyType)

\* muninType (line 521)
MuninType(mc) == ToLower(Get(mc, KeyType))

\* the test of line 523
IsCounterType(muninType) == muninType = TypeCounter \/ muninType = TypeDerive

\* head of the loop over items; after the last item the two fixed metrics
\* are registered and main starts serveStatus and the ticker
RegLoop ==
  /\ pc = "regloop"
  /\ IF gi <= Len(items)
     THEN /\ graphs' = Append(graphs, items[gi])
          /\ config' = EmptyMap          \* muninConfig starts with fresh maps
          /\ graphConfig' = EmptyMap
          /\ cmd' = "config"
          /\ pc' = "command"
          /\ UNCHANGED catVars
     ELSE /\ LET gv == NewGaugeVec(FetchTimeName, <<"A">>, 1)
                 bi == [name |-> BuildInfoName, help |-> <<"A">>, type |-> NoText]
             IN  /\ gaugePerMetric' = Put(gaugePerMetric, FetchTimeKey, gv)
                 /\ registry' = Register(Register(registry, bi), gv)
          /\ pc' = "idle"
          /\ cmd' = "none"
          /\ UNCHANGED << graphs, config, graphConfig, counterPerMetric >>
  /\ UNCHANGED << items, gi, nread, todo, discovered, world, wg, scr >>
  /\ UNCHANGED connVars
  /\ UNCHANGED lineVars

\* effect of one config line on the two maps (lines 483-497)
ConfigStore(cfg, gc, ln) ==
  LET parts    == Fields(ln)
      k        == parts[1]
      value    == TrimRight(Join(Tail(parts), <<SP>>), NL)
      keyParts == Split(k, ".")
  IN  IF Len(keyParts) > 1
      THEN [config |-> Put(cfg, keyParts[1],
                           Put(IF keyParts[1] \in DOMAIN cfg
                               THEN cfg[keyParts[1]] ELSE EmptyMap,
                               keyParts[2], value)),
            graphConfig |-> gc]
      ELSE [config |-> cfg, graphConfig |-> Put(gc, keyParts[1], value)]

\* muninConfig: one ReadString of the answer to "config <name>".
\* ev is "line" (the next line of the agent's answer), "eof" or "err".
ConfigRead ==
  /\ pc = "read" /\ cmd = "config"
  /\ \E ev \in {"line", "eof", "err"} :
       LET ln == AgentConfig(items[gi])[nread + 1]
       IN
       CASE ev = "eof" ->              \* return muninConfig(name)
              /\ config' = EmptyMap
              /\ graphConfig' = EmptyMap
              /\ pc' = "command"
              /\ UNCHANGED << nread, todo >>
              /\ UNCHANGED line
         [] ev = "err" ->              \* registerMetrics fails, main exits
              /\ pc' = "exited"
              /\ UNCHANGED line
              /\ UNCHANGED << nread, config, graphConfig, todo >>
         [] ev = "line" /\ ln = EndMarker ->
              /\ pc' = "register"
              /\ UNCHANGED line
              /\ todo' = DOMAIN config
              /\ UNCHANGED << nread, config, graphConfig >>
         [] ev = "line" /\ ln # EndMarker /\ ln[1] = "#" ->
              /\ nread' = nread + 1
              /\ UNCHANGED line
              /\ UNCHANGED << pc, config, graphConfig, todo >>
         [] ev = "line" /\ ln # EndMarker /\ ln[1] # "#" /\ Len(Fields(ln)) < 2 ->
              /\ pc' = "exited"       \* the error returned carries the line
              /\ line' = ln
              /\ UNCHANGED << nread, config, graphConfig, todo >>
         [] OTHER ->
              LET r == ConfigStore(config, graphConfig, ln)
              IN  /\ config' = r.config
                  /\ graphConfig' = r.graphConfig
                  /\ nread' = nread + 1
                  /\ UNCHANGED << pc, todo >>
                  /\ UNCHANGED line
  /\ UNCHANGED << cmd, items, graphs, gi, discovered, world, wg, scr >>
  /\ UNCHANGED connVars
  /\ UNCHANGED catVars
  /\ UNCHANGED << name, taken, truncated >>

\* one iteration of the loop over configs (Go visits the map in any order);
\* when the map is exhausted the loop over items moves on
RegisterMetric ==
  /\ pc = "register"
  /\ IF todo = {}
     THEN /\ gi' = gi + 1
          /\ pc' = "regloop"
          /\ UNCHANGED << todo, discovered >>
          /\ UNCHANGED catVars
     ELSE \E metric \in todo :
            LET metricName == RegisterName(items[gi], metric)
                desc       == HelpText(graphConfig, config[metric])
                muninType  == MuninType(config[metric])
            IN  /\ IF IsCounterType(muninType)
                   THEN LET gv == newMuninCounter(metricName, desc, muninType)
                        IN  /\ counterPerMetric' = Put(counterPerMetric, metricName, gv)
                            /\ registry' = Register(registry, gv)
                            /\ UNCHANGED gaugePerMetric
                   ELSE LET gv == NewGaugeVec(metricName, desc, 3)
                        IN  /\ gaugePerMetric' = Put(gaugePerMetric, metricName, gv)
                            /\ registry' = Register(registry, gv)
                            /\ UNCHANGED counterPerMetric
                /\ todo' = todo \ {metric}
                /\ discovered' = discovered \cup
                     {[graph |-> items[gi], metric |-> metric, name |-> metricName]}
                /\ UNCHANGED << gi, pc >>
  /\ UNCHANGED << cmd, items, graphs, nread, config, graphConfig, world, wg, scr >>
  /\ UNCHANGED connVars
  /\ UNCHANGED lineVars

(***************************************************************************)
(* The WaitGroup wg and the scrape handlers of serveStatus.  Handlers are   *)
(* anonymous, so scr counts how many of them are blocked in wg.Wait()      *)
(* ("waiting"), released by wg.Done() but not yet running ("woken"), and   *)
(* past the gate, inside prom.ServeHTTP ("reading").                       *)
(***************************************************************************)
InFlight == scr.waiting + scr.woken + scr.reading

\* wg.Done() seen by the handlers: when the counter reaches zero every
\* handler blocked in wg.Wait() is released
Released(s, count) ==
  IF count = 0
  THEN [s EXCEPT !.woken = @ + s.waiting, !.waiting = 0]
  ELSE s

\* serveStatus runs once registerMetrics has returned, until the process exits
Serving == pc = "idle" \/ (cmd = "fetch" /\ pc # "exited")

\* a request arrives: wg.Wait() returns at once when the counter is zero and
\* blocks otherwise
\* a handler that does not call wg.Wait()
ScrapeArrive_nowait ==
  /\ Serving
  /\ InFlight < world.clients
  /\ scr' = [scr EXCEPT !.reading = @ + 1]
  /\ UNCHANGED << pc, cmd, gi, nread, wg >>
  /\ UNCHANGED connVars
  /\ UNCHANGED regVars
  /\ UNCHANGED catVars
  /\ UNCHANGED lineVars

\* a handler that fetches on demand: it starts a cycle itself
ScrapeArrive_fetches ==
  /\ Serving
  /\ InFlight < world.clients
  /\ scr' = [scr EXCEPT !.reading = @ + 1]
  /\ IF pc = "idle"
     THEN pc' = "loop" /\ cmd' = "fetch" /\ gi' = 1
     ELSE UNCHANGED << pc, cmd, gi >>
  /\ UNCHANGED << nread, wg >>
  /\ UNCHANGED connVars
  /\ UNCHANGED regVars
  /\ UNCHANGED catVars
  /\ UNCHANGED lineVars

ScrapeArrive ==
  /\ Serving
  /\ InFlight < world.clients
  /\ scr' = IF wg = 0 THEN [scr EXCEPT !.reading = @ + 1]
                      ELSE [scr EXCEPT !.waiting = @ + 1]
  /\ UNCHANGED << pc, cmd, gi, nread, wg >>
  /\ UNCHANGED connVars
  /\ UNCHANGED regVars
  /\ UNCHANGED catVars
  /\ UNCHANGED lineVars

\* a released handler runs again: Wait returns if the counter is still zero
\* and panics ("WaitGroup is reused before previous Wait has returned") if a
\* new cycle has already called wg.Add; net/http recovers the panic and the
\* request ends without a response
ScrapeWake ==
  /\ Serving
  /\ scr.woken > 0
  /\ scr' = IF wg = 0 THEN [scr EXCEPT !.woken = @ - 1, !.reading = @ + 1]
                      ELSE [scr EXCEPT !.woken = @ - 1]
  /\ UNCHANGED << pc, cmd, gi, nread, wg >>
  /\ UNCHANGED connVars
  /\ UNCHANGED regVars
  /\ UNCHANGED catVars
  /\ UNCHANGED lineVars

\* muninCounter.Collect
Collect(c) ==
  IF Len(c.currentLabels) = 0
  THEN [c EXCEPT !.currentLabels =
          << <<"ThisMunin">>, <<"Plugin">>, <<"IsBroken">> >>]
  ELSE c

\* prom.ServeHTTP: the registered collectors are collected and the response
\* is written
ScrapeCollect ==
  /\ Serving
  /\ scr.reading > 0
  /\ counterPerMetric' =
       [n \in DOMAIN counterPerMetric |->
          LET c == counterPerMetric[n]
          IN  IF [name |-> c.name, help |-> c.help, type |-> c.type] \in registry
              THEN Collect(c) ELSE c]
  /\ scr' = [scr EXCEPT !.reading = @ - 1]
  /\ UNCHANGED << pc, cmd, gi, nread, wg, gaugePerMetric, registry >>
  /\ UNCHANGED connVars
  /\ UNCHANGED regVars
  /\ UNCHANGED lineVars

(***************************************************************************)
(* fetchMetrics.                                                           *)
(***************************************************************************)
\* the identifier as it would be resolved without the replacement of "-"
FetchName_nodash(graph, k) == graph \o <<"_">> \o k

\* identifier resolved at fetch (line 605)
FetchName(graph, k) == Replace(graph \o <<"_">> \o k, "-", "_")

\* lines 594-604 as they would be if a value that fails to parse were stored
\* as the zero value instead of being skipped
FetchParse_noskip(ln) ==
  LET parts == Fields(ln)
  IN  IF Len(parts) # 2
      THEN [skip |-> TRUE, key |-> NoText, value |-> 0]
      ELSE [skip |-> FALSE, key |-> Split(parts[1], ".")[1],
            value |-> ParseFloat(parts[2]).value]

\* lines 594-604 on a line without its newline: skip is TRUE when the line
\* is dropped for its field count or its value
FetchParse(ln) ==
  LET parts == Fields(ln)
  IN  IF Len(parts) # 2
      THEN [skip |-> TRUE, key |-> NoText, value |-> 0]
      ELSE LET k  == Split(parts[1], ".")[1]
               pf == ParseFloat(parts[2])
           IN  IF pf.err
               THEN [skip |-> TRUE, key |-> NoText, value |-> 0]
               ELSE [skip |-> FALSE, key |-> k, value |-> pf.value]

\* GaugeVec.WithLabelValues(labels...).Set(value)
GaugeSet(gv, labels, value) ==
  [gv EXCEPT !.children = Put(gv.children, labels, value)]

\* muninCounter.UpdateLabels
UpdateLabels(c, currentLabels, NewValue) ==
  [c EXCEPT !.value = NewValue, !.currentLabels = currentLabels]

\* lines 606-617 as they would be if an identifier found in neither map
\* were registered on the spot as a gauge
FetchStore_implicit(gauges, counters, nm, labels, value) ==
  IF nm \in DOMAIN gauges
  THEN IF Len(labels) # gauges[nm].nlabels
       THEN [panic |-> TRUE, gauges |-> gauges, counters |-> counters]
       ELSE [panic |-> FALSE,
             gauges |-> [gauges EXCEPT ![nm].children = Put(@, labels, value)],
             counters |-> counters]
  ELSE IF nm \in DOMAIN counters
  THEN [panic |-> FALSE, gauges |-> gauges,
        counters |-> [counters EXCEPT ![nm].value = value,
                                      ![nm].currentLabels = labels]]
  ELSE [panic |-> FALSE,
        gauges |-> Put(gauges, nm,
                       [name |-> nm, help |-> NoText, type |-> TypeGauge,
                        nlabels |-> 3, children |-> Put(EmptyMap, labels, value)]),
        counters |-> counters]

\* lines 606-617: the gauge map is looked up first, then the counter map;
\* WithLabelValues panics when the number of label values is not the number
\* of label names of the vector
FetchStore(gauges, counters, nm, labels, value) ==
  IF nm \in DOMAIN gauges
  THEN IF Len(labels) # gauges[nm].nlabels
       THEN [panic |-> TRUE, gauges |-> gauges, counters |-> counters]
       ELSE [panic |-> FALSE,
             gauges |-> [gauges EXCEPT ![nm] = GaugeSet(gauges[nm], labels, value)],
             counters |-> counters]
  ELSE IF nm \in DOMAIN counters
  THEN [panic |-> FALSE, gauges |-> gauges,
        counters |-> [counters EXCEPT ![nm] = UpdateLabels(counters[nm], labels, value)]]
  ELSE [panic |-> FALSE, gauges |-> gauges, counters |-> counters]

\* the ticker fires: fetchMetrics starts with wg.Add(1)
Tick ==
  /\ pc = "idle"
  /\ wg < MaxWg
  /\ wg' = wg + 1
  /\ gi' = 1
  /\ cmd' = "fetch"
  /\ pc' = "loop"
  /\ UNCHANGED << nread, scr >>
  /\ UNCHANGED connVars
  /\ UNCHANGED regVars
  /\ UNCHANGED catVars
  /\ line' = NoText /\ name' = NoText
  /\ UNCHANGED << taken, truncated >>

\* head of the loop over graphs: the next fetch command, or after the last
\* graph the duration is stored and wg.Done() is called
FetchLoop ==
  /\ pc = "loop"
  /\ IF gi <= Len(graphs)
     THEN /\ pc' = "command"
          /\ UNCHANGED << wg, scr >>
          /\ UNCHANGED catVars
     ELSE /\ \E d \in Durations :
               gaugePerMetric' = [gaugePerMetric EXCEPT ![FetchTimeKey] =
                                     GaugeSet(@, << hostname >>, d)]
          /\ wg' = wg - 1
          /\ scr' = Released(scr, wg')
          /\ pc' = "idle"
          /\ UNCHANGED << counterPerMetric, registry >>
  /\ UNCHANGED << cmd, gi, nread >>
  /\ UNCHANGED connVars
  /\ UNCHANGED regVars
  /\ UNCHANGED << line, name, taken >>
  /\ truncated' = IF gi <= Len(graphs) THEN truncated ELSE {}

\* ReadString returns io.EOF: return fetchMetrics(), which starts over
\* with wg.Add(1) and the first graph
FetchEOF ==
  /\ pc = "read" /\ cmd = "fetch"
  /\ wg < MaxWg
  /\ wg' = wg + 1
  /\ gi' = 1
  /\ pc' = "loop"
  /\ UNCHANGED << cmd, nread, scr >>
  /\ UNCHANGED connVars
  /\ UNCHANGED regVars
  /\ UNCHANGED catVars
  /\ line' = NoText /\ name' = NoText
  /\ taken' = {}
  /\ truncated' = truncated \cup taken

\* ReadString returns another error: return err, which the ticker loop logs
FetchErr ==
  /\ pc = "read" /\ cmd = "fetch"
  /\ pc' = "idle"
  /\ UNCHANGED << cmd, gi, nread, wg, scr >>
  /\ UNCHANGED connVars
  /\ UNCHANGED regVars
  /\ UNCHANGED catVars
  /\ line' = NoText /\ name' = NoText
  /\ taken' = {}
  /\ truncated' = {}

\* the line "." ends the response: on to the next graph
FetchEnd ==
  /\ pc = "read" /\ cmd = "fetch"
  /\ LET ln == TrimRight(EndMarker, NL)
     IN  Len(ln) = 1 /\ ln[1] = "."
  /\ gi' = gi + 1
  /\ pc' = "loop"
  /\ UNCHANGED << cmd, nread, wg, scr >>
  /\ UNCHANGED connVars
  /\ UNCHANGED regVars
  /\ UNCHANGED catVars
  /\ line' = NoText /\ name' = NoText
  /\ taken' = {}
  /\ UNCHANGED truncated

\* one value line l of the response (lines 594-617)
FetchLine(l) ==
  /\ pc = "read" /\ cmd = "fetch"
  /\ LET ln == TrimRight(l, NL)
         p  == FetchParse(ln)
     IN  /\ ~(Len(ln) = 1 /\ ln[1] = ".")
         /\ line' = l
         /\ IF p.skip
            THEN /\ pc' = pc
                 /\ name' = NoText
                 /\ UNCHANGED catVars
                 /\ UNCHANGED << taken, truncated >>
            ELSE LET nm == FetchName(graphs[gi], p.key)
                     r  == FetchStore(gaugePerMetric, counterPerMetric, nm,
                                      << hostname, graphs[gi], p.key >>, p.value)
                 IN  /\ name' = nm
                     /\ gaugePerMetric' = r.gauges
                     /\ counterPerMetric' = r.counters
                     /\ pc' = IF r.panic THEN "exited" ELSE pc
                     /\ UNCHANGED registry
                     /\ LET stored ==
                              /\ ~r.panic
                              /\ nm \in DOMAIN gaugePerMetric \cup DOMAIN counterPerMetric
                        IN  /\ taken' = IF stored THEN taken \cup {nm} ELSE taken
                            /\ truncated' = IF stored THEN truncated \ {nm}
                                                       ELSE truncated
  /\ UNCHANGED << cmd, gi, nread, wg, scr >>
  /\ UNCHANGED connVars
  /\ UNCHANGED regVars

Next ==
  \/ \E in \in ConnectInputs : InitConnect(in[1], in[2])
  \/ CommandOk
  \/ CommandEOF
  \/ CommandFatal
  \/ \E in \in ConnectInputs : Reconnect(in[1], in[2])
  \/ ListRead
  \/ RegLoop
  \/ ConfigRead
  \/ RegisterMetric
  \/ Tick
  \/ FetchLoop
  \/ FetchEOF
  \/ FetchErr
  \/ FetchEnd
  \/ \E l \in world.lines : FetchLine(l)
  \/ ScrapeArrive
  \/ ScrapeWake
  \/ ScrapeCollect

Spec == Init /\ [][Next]_vars

\* a connection attempt of the reconnect loop that succeeds
ReconnectOk ==
  \E in \in ConnectInputs : Reconnect(in[1], in[2]) /\ pc' = "command"

\* the loop of muninCommand has no exit but success: as long as the thread
\* is in it, it makes another attempt
LiveSpec ==
  /\ Start(WorldLive)
  /\ [][Next]_vars
  /\ WF_vars(\E in \in ConnectInputs : Reconnect(in[1], in[2]))

(***************************************************************************)
(* Properties.                                                             *)
(***************************************************************************)
\* the metric key of a value line: the text of its first field before the
\* first "."
KeyOf(l) ==
  LET f == Fields(TrimRight(l, NL))[1]
      i == IndexAny(f, {"."})
  IN  IF i = 0 THEN f ELSE SubSeq(f, 1, i - 1)

\* a value line with exactly two fields whose second field is a number
LineWellFormed(l) ==
  LET parts == Fields(TrimRight(l, NL))
  IN  Len(parts) = 2 /\ ~ParseFloat(parts[2]).err

\* the external identifier of a (graph, metric) pair
Ident(graph, metric) ==
  LET t == graph \o <<"_">> \o metric
  IN  [i \in 1..Len(t) |-> IF t[i] = "-" THEN "_" ELSE t[i]]

Identifiers == DOMAIN gaugePerMetric \cup DOMAIN counterPerMetric

\* registerMetrics has returned
Registered == pc = "idle" \/ cmd = "fetch"

\* some entry of the catalog holds a sampled value
SomeSampled ==
  \/ \E n \in DOMAIN counterPerMetric : counterPerMetric[n].value # 0
  \/ \E n \in DOMAIN gaugePerMetric \ {FetchTimeKey} :
        gaugePerMetric[n].children # EmptyMap

\* C1: whenever fetchMetrics has returned (with success, with an error or
\* after an EOF-triggered retry) the WaitGroup counter is zero and no scrape
\* handler is left blocked in wg.Wait().
GateZeroAfterCycle == pc = "idle" => (wg = 0 /\ scr.waiting = 0)

\* a step of fetchMetrics that stores a value in the catalog
SamplerWrite == FetchLoop \/ \E l \in FetchLines : FetchLine(l)

\* C2: while a scrape handler is past the gate and reading, no step of the
\* sampler changes an entry of the catalog.
NoSamplerWriteDuringScrape ==
  [][(scr.reading > 0 /\ SamplerWrite)
       => UNCHANGED << gaugePerMetric, counterPerMetric >>]_vars

\* C3: while the sampler sits in the reconnect loop of muninCommand during a
\* cycle, no scrape handler is blocked in wg.Wait().
OutageScrapesServed == (pc = "reconnect" /\ cmd = "fetch") => scr.waiting = 0

\* C4: a well-formed value line whose identifier is in neither map changes
\* no entry and registers nothing, and the sampler stays in the same
\* response, ready for its next line.
UnknownLineDropped ==
  [][\A l \in FetchLines :
       (/\ FetchLine(l)
        /\ LineWellFormed(l)
        /\ Ident(graphs[gi], KeyOf(l)) \notin Identifiers)
       => /\ UNCHANGED catVars
          /\ UNCHANGED << graphs, discovered >>
          /\ pc' = "read" /\ gi' = gi]_vars

\* an unknown identifier has just been met while sampled values exist
UnknownLineSeen ==
  /\ pc = "read" /\ cmd = "fetch" /\ line # NoText
  /\ LineWellFormed(line)
  /\ Ident(graphs[gi], KeyOf(line)) \notin Identifiers
  /\ SomeSampled

\* C5: a value line that has not exactly two fields, or whose value is not a
\* number, changes no entry, does not end the process, and leaves the
\* sampler in the same response, ready for its next line.
MalformedLineSkipped ==
  [][\A l \in FetchLines :
       (FetchLine(l) /\ ~LineWellFormed(l))
       => /\ UNCHANGED catVars
          /\ pc' = "read" /\ gi' = gi]_vars

\* a line with an unparsable value has just been met for a counter that
\* holds a sampled value
MalformedLineSeen ==
  /\ pc = "read" /\ cmd = "fetch" /\ line # NoText
  /\ Len(Fields(line)) = 2 /\ ~LineWellFormed(line)
  /\ Ident(graphs[gi], KeyOf(line)) \in DOMAIN counterPerMetric
  /\ counterPerMetric[Ident(graphs[gi], KeyOf(line))].value # 0

\* the banner starts at position i of head
BannerAt(head, i) ==
  /\ i + Len(muninBanner) - 1 <= Len(head)
  /\ SubSeq(head, i, i + Len(muninBanner) - 1) = muninBanner

\* C6: a connection attempt whose first line contains the banner succeeds
\* and sets hostname to the text between the first banner and the end of the
\* line; any other attempt (dial failure, read failure, another line) fails
\* and leaves hostname as it was.
ConnectContract ==
  [][\A in \in ConnectInputs :
       (InitConnect(in[1], in[2]) \/ Reconnect(in[1], in[2]))
       => IF in[1] = "ok" /\ \E i \in 1..Len(in[2]) : BannerAt(in[2], i)
          THEN /\ pc' = "command"
               /\ \E i \in 1..Len(in[2]) :
                    /\ BannerAt(in[2], i)
                    /\ \A j \in 1..(i - 1) : ~BannerAt(in[2], j)
                    /\ in[2] = SubSeq(in[2], 1, i - 1) \o muninBanner
                                 \o hostname' \o << NL >>
               /\ \A k \in 1..Len(hostname') : hostname'[k] # NL
          ELSE /\ pc' \in {"exited", "reconnect"}
               /\ hostname' = hostname]_vars

\* a handshake has failed in the reconnect loop after an earlier one recorded
\* a hostname
ReconnectFailedKeepsHostname ==
  pc = "reconnect" /\ globalConn = "open" /\ hostname = <<"h", "2">>

\* C7: once registerMetrics has returned, every discovered (graph, metric)
\* pair has its own entry and no identifier is in both maps.
NoIdentifierCollision ==
  pc = "idle" =>
    /\ \A d1, d2 \in discovered : d1.name = d2.name => d1 = d2
    /\ DOMAIN gaugePerMetric \cap DOMAIN counterPerMetric = {}
    /\ Cardinality(discovered) =
         Cardinality(DOMAIN gaugePerMetric \ {FetchTimeKey})
           + Cardinality(DOMAIN counterPerMetric)

\* what registration fixes: the graphs, the identifiers, the descriptor of
\* every entry and the registered descriptors
Structure ==
  [graphs   |-> graphs,
   pairs    |-> discovered,
   gauges   |-> [n \in DOMAIN gaugePerMetric |->
                   << gaugePerMetric[n].name, gaugePerMetric[n].help,
                      gaugePerMetric[n].type, gaugePerMetric[n].nlabels >>],
   counters |-> [n \in DOMAIN counterPerMetric |->
                   << counterPerMetric[n].name, counterPerMetric[n].help,
                      counterPerMetric[n].type >>],
   registry |-> registry]

\* C8: once registerMetrics has returned, no step changes the list of graphs,
\* the set of identifiers, the kind or help text of an entry, or the
\* registered descriptors.
CatalogFrozen == [][Registered => Structure' = Structure]_vars

\* a cycle has completed after a reconnect changed the hostname, with sampled
\* values in the catalog
SampledAfterRegistration ==
  /\ pc = "idle"
  /\ SomeSampled
  /\ Cardinality(DOMAIN gaugePerMetric[FetchTimeKey].children) = 2

\* C9: the metric registered by a step of the loop over configs is a Counter
\* entry when its type attribute, lower-cased, is "counter" or "derive", and
\* a Gauge entry for every other value and when the attribute is absent.
ClassifiedByType ==
  [][(pc = "register" /\ todo' # todo) =>
       \A m \in todo \ todo' :
         LET t  == IF KeyType \in DOMAIN config[m]
                   THEN ToLower(config[m][KeyType]) ELSE NoText
             id == Ident(items[gi], m)
         IN  IF t = TypeCounter \/ t = TypeDerive
             THEN /\ id \in DOMAIN counterPerMetric'
                  /\ counterPerMetric'[id].type = t
                  /\ gaugePerMetric' = gaugePerMetric
             ELSE /\ id \in DOMAIN gaugePerMetric'
                  /\ gaugePerMetric'[id].type = TypeGauge
                  /\ counterPerMetric' = counterPerMetric]_vars

\* registration has returned with counters registered from the types
\* "DERIVE", "counter" and "Counter" and gauges from "GAUGE" and no type
AllKindsRegistered ==
  /\ pc = "idle"
  /\ Cardinality(DOMAIN counterPerMetric) = 3
  /\ \E n \in DOMAIN counterPerMetric : counterPerMetric[n].type = TypeDerive
  /\ Cardinality(DOMAIN gaugePerMetric \ {FetchTimeKey}) = 2

\* C10: every registration is recorded under graph + "_" + metric with "-"
\* replaced by "_", and a well-formed value line for a registered
\* (graph, metric) pair resolves to the identifier registered for the pair.
FetchResolvesRegistered ==
  /\ \A d \in discovered : d.name = Ident(d.graph, d.metric)
  /\ (pc = "read" /\ cmd = "fetch" /\ line # NoText /\ LineWellFormed(line))
       => \A d \in discovered :
            (d.graph = graphs[gi] /\ d.metric = KeyOf(line)) => name = d.name

\* a value line of a registered metric of graph a-b has just been resolved
DashedGraphResolved ==
  /\ pc = "read" /\ cmd = "fetch" /\ line # NoText /\ LineWellFormed(line)
  /\ graphs[gi] = GraphAB
  /\ \E d \in discovered : d.graph = graphs[gi] /\ d.metric = KeyOf(line)
  /\ name \in Identifiers

\* the value of attribute k in the attribute map m, empty when absent
Attr(m, k) == IF k \in DOMAIN m THEN m[k] ELSE NoText

\* the entry registered under identifier id, in either map
EntryHelp(gauges, counters, id, isCounter) ==
  IF isCounter THEN counters[id].help ELSE gauges[id].help

\* C11: the help text registered by a step of the loop over configs is
\* graph_title + ": " + label, followed by ", " + info exactly when the
\* metric has a non-empty info attribute.
HelpTextComposed ==
  [][(pc = "register" /\ todo' # todo) =>
       \A m \in todo \ todo' :
         LET id   == Ident(items[gi], m)
             base == Attr(graphConfig, GraphTitle) \o <<":", " ">>
                       \o Attr(config[m], KeyLabel)
             info == Attr(config[m], KeyInfo)
             t    == ToLower(Attr(config[m], KeyType))
             help == EntryHelp(gaugePerMetric', counterPerMetric', id,
                               t = TypeCounter \/ t = TypeDerive)
         IN  IF info # NoText
             THEN help = base \o <<",", " ">> \o info
             ELSE help = base]_vars

\* the loop over the configs of a graph has registered a metric with an info
\* attribute and a metric without one
HelpWithAndWithoutInfo ==
  /\ pc = "register" /\ todo = {}
  /\ \E m1, m2 \in DOMAIN config :
       /\ Attr(config[m1], KeyInfo) # NoText
       /\ KeyInfo \notin DOMAIN config[m2]
       /\ Ident(items[gi], m1) \in Identifiers
       /\ Ident(items[gi], m2) \in Identifiers

\* the state of the caller of muninCommand
CallerState == << cmd, gi, nread, wg, graphs, items, gaugePerMetric, registry >>

\* C12: when the peek reports end-of-stream the connection is closed and the
\* thread enters the reconnect loop; the loop is left only by a successful
\* connect, after which the same command is issued on the new connection,
\* and the caller does nothing meanwhile; if connection attempts keep being
\* able to succeed and the agent keeps being able to answer the peek, a
\* thread in the loop eventually gets its reader (or the process exits on a
\* peek error).
ReconnectNeverGivesUp ==
  /\ [][/\ (pc = "command" /\ pc' = "reconnect")
             => (globalConn' = "closed" /\ CallerState' = CallerState)
        /\ pc = "reconnect"
             => /\ pc' \in {"reconnect", "command"}
                /\ CallerState' = CallerState
                /\ pc' = "command" => globalConn' = "open"
                /\ pc' = "reconnect" => hostname' = hostname]_vars
  /\ (SF_vars(ReconnectOk) /\ SF_vars(CommandOk))
       => ((pc = "reconnect") ~> (pc \in {"read", "exited"}))

\* a fetch command has got its reader on a connection whose hostname differs
\* from the one an earlier sample was labelled with
ReaderAfterReconnect ==
  /\ pc = "read" /\ cmd = "fetch" /\ globalConn = "open"
  /\ \E n \in DOMAIN gaugePerMetric \ {FetchTimeKey} :
       \E ls \in DOMAIN gaugePerMetric[n].children : ls[1] # hostname

\* C13: end-of-stream inside a response makes the command start from
\* scratch and discards what the truncated response left: for config the
\* retry starts with empty maps at the same graph; for fetch the cycle
\* starts again at the first graph and, when it has completed, no entry
\* still carries a value taken from a truncated response that the complete
\* responses did not report again.
TruncatedResponseDiscarded ==
  [][/\ (pc = "read" /\ cmd = "config" /\ pc' = "command")
          => (config' = EmptyMap /\ graphConfig' = EmptyMap /\ gi' = gi)
     /\ (pc = "read" /\ cmd = "fetch" /\ pc' = "loop" /\ gi' # gi + 1)
          => gi' = 1
     /\ (pc = "loop" /\ pc' = "idle") => truncated = {}]_vars

\* the line muninConfig is about to read is not a comment and has fewer
\* than two fields
ShortConfigLineNext ==
  /\ pc = "read" /\ cmd = "config"
  /\ LET ln == AgentConfig(items[gi])[nread + 1]
     IN  ln # EndMarker /\ ln[1] # "#" /\ Len(Fields(ln)) < 2

\* C14: a config line with fewer than two fields is not fatal: while such a
\* line is the next one of the response, the process never ends with the
\* error that carries the line (it can end only for a read error).
ShortConfigLineNotFatal ==
  [][(ShortConfigLineNext /\ pc' = "exited") => line' = line]_vars

\* fetchMetrics returns a read error other than io.EOF to the timer loop
FetchErrStep == pc = "read" /\ cmd = "fetch" /\ pc' = "idle"

\* C15: a read error other than end-of-stream ends the cycle at once: no
\* further graph is fetched, nothing is retried or reconnected, the catalog
\* is left as it is; the next tick starts at the first graph, from the state
\* a successful cycle leaves (gate counter zero), so that the cycle runs
\* like one that follows a successful cycle.
ErrorEndsCycleOnly ==
  [][/\ FetchErrStep
          => /\ gi' = gi /\ connVars' = connVars /\ catVars' = catVars
             /\ wg' = 0
     /\ (pc = "idle" /\ pc' # "idle")
          => (pc' = "loop" /\ gi' = 1 /\ cmd' = "fetch")]_vars

\* C16: a read error other than end-of-stream ends the process, on the
\* peek, on a config line and on a fetch line alike: no step taken on such
\* an error leaves the thread in a position from which it writes commands.
ReadErrorFatal ==
  [][/\ FetchErrStep => pc' = "exited"
     /\ (pc = "command" /\ pc' \notin {"command", "read", "reconnect"})
          => pc' = "exited"
     /\ (pc = "read" /\ cmd = "config"
           /\ pc' \notin {"read", "command", "register"}) => pc' = "exited"]_vars

\* a step of a scrape handler: one arrives, passes wg.Wait() or finishes
HandlerStep == InFlight' # InFlight \/ scr'.reading # scr.reading

\* C17: the connection belongs to the sampler thread: a handler step never
\* changes the connection nor the sampler's position; the connection is
\* replaced only by connect (at start or in the reconnect loop); a cycle
\* starts only from the idle timer loop or as the retry of a cycle cut by
\* end-of-stream; within a cycle the command of graph gi is issued from the
\* loop head, and gi advances by one exactly when the response of graph gi
\* has been read up to its ".".
ConnectionOwnedBySampler ==
  [][/\ HandlerStep
          => /\ connVars' = connVars
             /\ << pc, cmd, gi, nread >>' = << pc, cmd, gi, nread >>
     /\ hostname' # hostname => pc \in {"init", "reconnect"}
     /\ (globalConn' # globalConn /\ pc \notin {"init", "reconnect"})
          => (pc = "command" /\ globalConn' = "closed")
     /\ (cmd' = "fetch" /\ pc' = "loop" /\ gi' = 1 /\ (pc # "loop" \/ gi # 1))
          => (pc = "idle" \/ (pc = "read" /\ cmd = "fetch"))
     /\ (cmd = "fetch" /\ pc = "loop" /\ pc' = "command")
          => (gi' = gi /\ gi \in 1..Len(graphs))
     /\ (cmd = "fetch" /\ cmd' = "fetch" /\ gi' # gi /\ gi' # 1)
          => (pc = "read" /\ pc' = "loop" /\ gi' = gi + 1)]_vars

\* the command of the second graph is outstanding while a handler waits
SecondCommandOutstanding ==
  /\ pc = "command" /\ cmd = "fetch" /\ gi = 2
  /\ scr.waiting > 0

\* C18: a handler starts to read the catalog only in a step that finds the
\* gate counter at zero; a scrape that arrives while the counter is above
\* zero waits; while the counter is zero a further scrape can always pass,
\* however many handlers are reading already.
GateAdmitsOnZero ==
  /\ [][/\ scr'.reading > scr.reading => wg = 0
        /\ (InFlight' > InFlight /\ wg > 0)
             => (scr'.waiting = scr.waiting + 1 /\ scr'.reading = scr.reading)
        /\ (InFlight' > InFlight /\ wg = 0)
             => (scr'.reading = scr.reading + 1 /\ scr'.waiting = scr.waiting)]_vars
  /\ [](Serving /\ wg = 0 /\ InFlight < world.clients => ENABLED ScrapeArrive)

\* two handlers read the catalog at the same time
ConcurrentReaders == scr.reading >= 2 /\ wg = 0

\* C19: serving a scrape only reads the catalog: no step of a handler
\* changes the value or the label values of an entry, sampled or not.
ScrapeReadOnly ==
  [][HandlerStep =>
       /\ gaugePerMetric' = gaugePerMetric
       /\ counterPerMetric' = counterPerMetric]_vars

\* C20: a well-formed value line whose identifier is in the catalog leaves
\* the entry with the reported number as its value and (hostname, graph,
\* key) as its label values, whatever the entry held before and whether it
\* is a gauge or a counter, and changes no other entry.
FetchLineOverwrites ==
  [][\A l \in FetchLines :
       (FetchLine(l) /\ LineWellFormed(l) /\ name' \in Identifiers /\ pc' = pc)
         => LET id     == name'
                labels == << hostname, graphs[gi], KeyOf(l) >>
                v      == ParseFloat(Fields(TrimRight(l, NL))[2]).value
            IN  /\ IF id \in DOMAIN gaugePerMetric
                   THEN gaugePerMetric'[id].children = Put(EmptyMap, labels, v)
                   ELSE /\ counterPerMetric'[id].value = v
                        /\ counterPerMetric'[id].currentLabels = labels
                /\ \A n \in DOMAIN gaugePerMetric \ {id} :
                     gaugePerMetric'[n] = gaugePerMetric[n]
                /\ \A n \in DOMAIN counterPerMetric \ {id} :
                     counterPerMetric'[n] = counterPerMetric[n]]_vars

\* fetchMetrics has been called and has not returned
CycleInProgress ==
  cmd = "fetch" /\ pc \in {"loop", "command", "reconnect", "read"}

\* C21: the counter of the WaitGroup is 0 or 1 in every state: 1 exactly
\* while a cycle is in progress, 0 otherwise, whatever cycles, errors and
\* end-of-stream retries came before.
GateMarkerBinary ==
  pc # "exited" =>
    /\ wg \in {0, 1}
    /\ (wg = 1) <=> CycleInProgress

\* C22: the key of the self-timing gauge belongs to that gauge alone: no
\* (graph, metric) pair is registered under it, no fetched line resolves to
\* it, and the entry stored under it changes only in the step that ends a
\* cycle, which sets a sample labelled with the hostname alone.
SelfTimingGaugeReserved ==
  /\ [](\A d \in discovered : d.name # FetchTimeKey)
  /\ [](cmd = "fetch" => name # FetchTimeKey)
  /\ [][(/\ FetchTimeKey \in DOMAIN gaugePerMetric
         /\ gaugePerMetric'[FetchTimeKey] # gaugePerMetric[FetchTimeKey])
          => /\ pc = "loop" /\ pc' = "idle"
             /\ \A ls \in DOMAIN gaugePerMetric'[FetchTimeKey].children :
                  Len(ls) = 1]_vars

\* C23: every entry exposes at most one sample: a gauge entry never holds
\* two samples (so that none labelled with an earlier hostname stays next to
\* the one labelled with the current hostname), and a counter entry holds
\* the label values of its last update.
OneSamplePerEntry ==
  \A n \in DOMAIN gaugePerMetric :
    \A ls1, ls2 \in DOMAIN gaugePerMetric[n].children : ls1 = ls2

====
